---- MODULE Spec2Model ----
(***************************************************************************)
(* A model of the react-three-fiber portfolio: the App shell with its      *)
(* subscribe popup, the PixelArt page (file selection, grid size fields,   *)
(* asynchronous image loads, displacement mode and its timers), the        *)
(* PixelGrid reveal animation driven by render frames, and the image       *)
(* sampler createPixelData.                                                *)
(*                                                                         *)
(* Time is counted in whole seconds.  Coordinates of sampled cells are     *)
(* kept in half cells (twice the JavaScript value), because                *)
(* targetWidth / 2 is a half-integer for odd widths.  A normalised colour  *)
(* channel r / 255 is kept as the fraction <<r, 255>>.                     *)
(***************************************************************************)
EXTENDS Integers, Sequences, FiniteSets, TLC

VARIABLES
  \* ---- App shell (App.tsx) and the document it lives in
  route,               \* path of the loaded document
  appMounted,          \* App's mount effect has run
  showPopup,           \* App state showPopup
  popupDismissed,      \* observer: the user pressed the dismiss button in this session
  \* ---- PixelArt page state (PixelArt.tsx, 245-254)
  hasPixels,           \* pixels is not null
  pixelsId,            \* identity of the pixels array: the number of setPixels calls so far
  pixels,              \* the sequence of PixelInfo records; << >> while null
  tempPixelWidth,
  tempPixelHeight,
  pixelWidth,
  pixelHeight,
  fileChangeCount,
  imageSrc,            \* NoImage (null) or the Data URL, named by its file
  animation,           \* displacement mode
  imgLoads,            \* images created by the sampling effect whose onload has not fired
  reads,               \* FileReaders started by handleFileChange whose onload has not fired
  rendered,            \* the page state the committed render was made from (closures, PixelGrid props)
  effects,             \* passive effects of the committed render that have not run yet
  timers,              \* pending setTimeout callbacks, in creation order
  \* ---- PixelGrid state and refs (PixelArt.tsx, 50-56); meaningful once PixelGrid is mounted
  scales,              \* the scales state as last set
  scalesSeen,          \* the scales value captured by the committed render (frame closure, PixelBox props)
  scaleProgress,       \* scaleProgressRef.current, seconds
  batchIndex,          \* batchIndexRef.current
  prevFileChangeCount, \* prevFileChangeCountRef.current
  \* ---- the sampler run on its own
  sImg, sW, sH,        \* the image as drawImage resamples it to sW x sH, and the grid size
  sCalls,              \* invocations so far on this input
  sOut,                \* outcome of the latest invocation (NoOutcome before the first)
  tieUp,               \* the stored (channel, alpha) pairs this build's getImageData reads
                       \* rounded up when the unpremultiplied value is an exact half
  lastCanvas,          \* contents of the canvas element created by the latest invocation
  \* ---- observers
  lastOp,              \* name of the operation that made the latest step
  batchSet,            \* cell indices set to 1 by batch steps since the latest reset or mount
  sampledSinceReset,   \* setPixels was called after the latest reset, or before the grid was mounted
  nTriggers,           \* effect triggers since the document was loaded
  idleReturns,         \* times the mode changed from a non-idle label to "default"
  retriggered,         \* some trigger happened while timers were pending
  clock,               \* seconds since the document was loaded, counted while timers are pending
  modeLog,             \* every setAnimation call since the document was loaded: value, time, caller
  \* ---- PixelGrid: the displacement animation (PixelArt.tsx, 106-108, 129-201)
  animationSeen,       \* the animation prop captured by the committed render (frame closure)
  lastAnimation,       \* lastAnimationRef.current
  animationProgress,   \* animationProgressRef.current, in units of 1 / ANIMATION_TIME
  posSet,              \* per mesh: the mode, progress and scatter entry its position was last computed from
  scatterPositions     \* scatterPositionsRef.current

appVars     == <<route, appMounted, showPopup, popupDismissed>>
pageVars    == <<hasPixels, pixels, pixelsId, tempPixelWidth, tempPixelHeight, pixelWidth, pixelHeight,
                 fileChangeCount, imageSrc, imgLoads, reads, rendered, effects>>
pageState   == <<hasPixels, pixels, pixelsId, pixelWidth, pixelHeight, imageSrc, fileChangeCount>>
animVars    == <<animation, timers, nTriggers, idleReturns, retriggered, clock, modeLog>>
moveVars    == <<animationSeen, lastAnimation, animationProgress, posSet, scatterPositions>>
gridVars    == <<scales, scalesSeen, scaleProgress, batchIndex, prevFileChangeCount, batchSet,
                 sampledSinceReset>>
samplerVars == <<sImg, sW, sH, sCalls, sOut, tieUp>>
vars        == <<appVars, pageVars, animVars, gridVars, moveVars, samplerVars, lastCanvas, lastOp>>

(***************************************************************************)
(* Program constants                                                       *)
(***************************************************************************)
DEFAULT_PIXEL_SIZE == 64
ANIMATION_TIME     == 3
AlphaThreshold     == 30
ChannelMax         == 255

(***************************************************************************)
(* Bounds of the model                                                     *)
(***************************************************************************)
MaxCells    == 4   \* the sampler alone: rasters of at most this many cells
MaxCalls    == 2   \* the sampler alone: invocations per input

NoImage  == "null"
NoFile   == "none"

(***************************************************************************)
(* The image sampler, createPixelData                                      *)
(***************************************************************************)
Rgba(r, g, b, a) == [r |-> r, g |-> g, b |-> b, a |-> a]

TransparentBlack == Rgba(0, 0, 0, 0)
Red   == Rgba(255, 0, 0, 255)
Green == Rgba(0, 255, 0, 255)
Blue  == Rgba(0, 0, 255, 255)

\* the cell values rasters are built from: the example's four, and one cell
\* on each side of the alpha threshold, the one at the threshold coloured
CellKinds == {Red, Green, Blue, TransparentBlack,
              Rgba(255, 255, 255, 29), Rgba(10, 20, 30, 30)}

\* document.createElement("canvas") with width and height set: a fresh
\* bitmap of transparent black
NewCanvas(w, h) == [i \in 1..(w * h) |-> TransparentBlack]

\* The canvas keeps its cells premultiplied by alpha, 8 bits per channel:
\* a channel c at alpha a is stored as c * a / 255, rounded to nearest
Premultiply(c) ==
  LET pm(v) == (2 * v * c.a + ChannelMax) \div (2 * ChannelMax)
  IN  Rgba(pm(c.r), pm(c.g), pm(c.b), c.a)

\* p * 255 / a lies exactly half way between two integers
IsTie(p, a) == a > 0 /\ (2 * p * ChannelMax) % (2 * a) = a

\* getImageData gives the cells back unpremultiplied: a stored channel p at
\* alpha a reads as p * 255 / a, rounded to nearest; an exact half goes up or
\* down as the build has it for that pair
Unpremultiply(p) ==
  LET down(v) == (2 * v * ChannelMax + p.a - 1) \div (2 * p.a)
      up(v)   == (2 * v * ChannelMax + p.a) \div (2 * p.a)
      near(v) == IF IsTie(v, p.a) /\ <<v, p.a>> \in tieUp THEN up(v) ELSE down(v)
      un(v)   == IF near(v) > ChannelMax THEN ChannelMax ELSE near(v)
  IN  IF p.a = 0 THEN TransparentBlack ELSE Rgba(un(p.r), un(p.g), un(p.b), p.a)

\* source-over compositing of a source cell s on a canvas cell d, both as
\* getImageData reads them; the sum is made on the premultiplied values, the
\* canvas cell's share (255 - alpha of s) / 255 rounded down
Over(s, d) ==
  LET sp == Premultiply(s)
      dp == Premultiply(d)
      keep(v) == (v * (ChannelMax - s.a)) \div ChannelMax
      sum(a, b) == IF a + keep(b) > ChannelMax THEN ChannelMax ELSE a + keep(b)
  IN  Unpremultiply(Rgba(sum(sp.r, dp.r), sum(sp.g, dp.g), sum(sp.b, dp.b), sum(sp.a, dp.a)))

\* the stored pairs of the cells in the set that read as an exact half
TiePairs(cells) ==
  {pa \in UNION {{<<Premultiply(c).r, c.a>>, <<Premultiply(c).g, c.a>>, <<Premultiply(c).b, c.a>>} :
                   c \in cells} : IsTie(pa[1], pa[2])}

\* ctx.drawImage(img, 0, 0, targetWidth, targetHeight) followed by
\* getImageData: img is the image already resampled to the canvas size
DrawImage(canvas, img) == [i \in 1..Len(canvas) |-> Over(img[i], canvas[i])]

Frac(n, d) == <<n, d>>

\* the record pushed for cell (x, y); x and y in half cells
PixelInfo(x, y, targetWidth, targetHeight, c) ==
  [x |-> 2 * x - targetWidth,
   y |-> (0 - 2 * y) + targetHeight,
   z |-> 0,
   color |-> [r |-> Frac(c.r, ChannelMax), g |-> Frac(c.g, ChannelMax), b |-> Frac(c.b, ChannelMax)]]

KeepsCellLax(c) == c.a > 0

\* the loop's filter: a cell is skipped when a < 30
KeepsCell(c) == ~(c.a < AlphaThreshold)

\* the two nested loops from cell k on (k = idx / 4), row by row
RECURSIVE SampleFrom(_, _, _, _)
SampleFrom(data, k, targetWidth, targetHeight) ==
  IF k >= targetWidth * targetHeight THEN << >>
  ELSE LET x    == k % targetWidth
           y    == k \div targetWidth
           c    == data[k + 1]
           rest == SampleFrom(data, k + 1, targetWidth, targetHeight)
       IN  IF KeepsCell(c) THEN <<PixelInfo(x, y, targetWidth, targetHeight, c)>> \o rest
           ELSE rest

CreatePixelDataLenient(ctxOk, img, targetWidth, targetHeight) ==
  IF ~ctxOk \/ targetWidth = 0 \/ targetHeight = 0
    THEN [thrown |-> FALSE, canvas |-> << >>, result |-> << >>]
    ELSE LET data == DrawImage(NewCanvas(targetWidth, targetHeight), img)
         IN  [thrown |-> FALSE, canvas |-> data,
              result |-> SampleFrom(data, 0, targetWidth, targetHeight)]

\* createPixelData: throws when getContext("2d") gives null (ctxOk false)
\* and when getImageData is asked for an empty rectangle
CreatePixelData(ctxOk, img, targetWidth, targetHeight) ==
  IF ~ctxOk
    THEN [thrown |-> TRUE, canvas |-> NewCanvas(targetWidth, targetHeight), result |-> << >>]
  ELSE IF targetWidth = 0 \/ targetHeight = 0
    THEN [thrown |-> TRUE, canvas |-> << >>, result |-> << >>]
  ELSE LET data == DrawImage(NewCanvas(targetWidth, targetHeight), img)
       IN  [thrown |-> FALSE, canvas |-> data,
            result |-> SampleFrom(data, 0, targetWidth, targetHeight)]

(***************************************************************************)
(* Initial values of each part                                             *)
(***************************************************************************)
DemoPaths == {"/pixcel-art/demo", "/project1/demo"}
HomePath  == "/"

\* the first render of the page
FirstRender ==
  [hasPixels |-> FALSE, pixels |-> << >>, pixelsId |-> 0, pixelWidth |-> DEFAULT_PIXEL_SIZE,
   pixelHeight |-> DEFAULT_PIXEL_SIZE, imageSrc |-> NoImage, fileChangeCount |-> 0]

\* PixelArt's useState initialisers, and no PixelGrid yet
PageInit ==
  /\ pixelsId = 0
  /\ reads = << >>
  /\ rendered = FirstRender
  /\ effects = {}
  /\ hasPixels = FALSE
  /\ pixels = << >>
  /\ tempPixelWidth = DEFAULT_PIXEL_SIZE
  /\ tempPixelHeight = DEFAULT_PIXEL_SIZE
  /\ pixelWidth = DEFAULT_PIXEL_SIZE
  /\ pixelHeight = DEFAULT_PIXEL_SIZE
  /\ fileChangeCount = 0
  /\ imageSrc = NoImage
  /\ imgLoads = << >>

AnimInit ==
  /\ animation = "default"
  /\ timers = << >>
  /\ nTriggers = 0
  /\ idleReturns = 0
  /\ retriggered = FALSE
  /\ clock = 0
  /\ modeLog = << >>

\* the position a mesh gets from PixelBox's position prop: its sampled place
NoScatter == [x |-> 0, y |-> 0, z |-> 0]
AtProp == [anim |-> "default", progress |-> 0, scatter |-> NoScatter]

MoveInit ==
  /\ animationSeen = "default"
  /\ lastAnimation = "default"
  /\ animationProgress = 0
  /\ posSet = << >>
  /\ scatterPositions = << >>

GridInit ==
  /\ scales = << >>
  /\ scalesSeen = << >>
  /\ scaleProgress = 0
  /\ batchIndex = 0
  /\ prevFileChangeCount = 0
  /\ batchSet = {}
  /\ sampledSinceReset = FALSE

NoOutcome == [thrown |-> FALSE, result |-> << >>]

\* the cells the images of the page are made of
PageCells == {Red, TransparentBlack}

SamplerIdle ==
  /\ tieUp \in SUBSET TiePairs(PageCells)
  /\ sImg = << >>
  /\ sW = 0
  /\ sH = 0
  /\ sCalls = 0
  /\ sOut = NoOutcome

(***************************************************************************)
(* The sampler run on its own: an input raster, invoked repeatedly         *)
(***************************************************************************)
SamplerShapes == {wh \in (0..MaxCells) \X (0..MaxCells) : wh[1] * wh[2] <= MaxCells}

SamplerInit ==
  /\ \E wh \in SamplerShapes :
       /\ sW = wh[1]
       /\ sH = wh[2]
       /\ sImg \in [1..(wh[1] * wh[2]) -> CellKinds]
  /\ tieUp \in SUBSET TiePairs(CellKinds)
  /\ sCalls = 0
  /\ sOut = NoOutcome
  /\ lastCanvas = << >>
  /\ lastOp = "other"
  /\ route = "/pixcel-art/demo" /\ appMounted = TRUE
  /\ showPopup = FALSE /\ popupDismissed = TRUE
  /\ PageInit /\ AnimInit /\ GridInit /\ MoveInit

\* one invocation createPixelData(img, sW, sH)
SamplerCall(ctxOk) ==
  /\ sCalls < MaxCalls
  /\ LET out == CreatePixelData(ctxOk, sImg, sW, sH)
     IN  /\ sOut' = [thrown |-> out.thrown, result |-> out.result]
         /\ lastCanvas' = out.canvas
  /\ sCalls' = sCalls + 1
  /\ lastOp' = "other"
  /\ UNCHANGED <<sImg, sW, sH, tieUp, appVars, pageVars, animVars, gridVars, moveVars>>

SamplerNext == \E ctxOk \in BOOLEAN : SamplerCall(ctxOk)

SpecSampler == SamplerInit /\ [][SamplerNext]_vars

(***************************************************************************)
(* The PixelArt page: grid size fields, file selection, reload, the        *)
(* sampling effect and the image loads it starts                           *)
(***************************************************************************)
MaxChanges  == 2   \* runs of the sampling effect per document
MaxProgress == 5   \* seconds accumulated by the reveal animation

\* values typed into the two numeric fields (min="1" does not stop typing 0)
InputValues == {0, 1, 2}
Files       == {"opaque", "clear"}
FrameDeltas == {1, 2}

\* the picked file's image as drawImage resamples it to w x h cells: a fully
\* opaque red picture and a fully transparent one
DrawnAt(file, w, h) ==
  [i \in 1..(w * h) |-> IF file = "opaque" THEN Red ELSE TransparentBlack]

\* a hole of a JavaScript array (undefined), coded as a number below every scale
Undefined == 0 - 1
Zeros(n) == [i \in 1..n |-> 0]

\* Array(pixels.length).fill(0), the value of the initial state and of the reset
HiddenScales(n) == Zeros(n)

\* the state updates reader.onload makes for the read it belongs to: none when
\* the reader's result is not a string, else the two temp sizes of the render
\* the file was picked in, and the url
FileChangeTargetUnchecked(read, resultIsString) ==
  [w |-> read.w, h |-> read.h, src |-> read.file]

FileChangeTarget(read, resultIsString) ==
  IF ~resultIsString
    THEN [w |-> pixelWidth, h |-> pixelHeight, src |-> imageSrc]
    ELSE [w |-> read.w, h |-> read.h, src |-> read.file]

\* the state updates reloadImage makes: none while the render it was made in
\* had no image
ReloadTarget ==
  IF rendered.imageSrc = NoImage
    THEN [w |-> pixelWidth, h |-> pixelHeight, src |-> imageSrc]
    ELSE [w |-> tempPixelWidth, h |-> tempPixelHeight, src |-> imageSrc]

\* setPixelWidth, setPixelHeight and setImageSrc to the target t: the state
\* is set, the render that shows it comes later
ApplyTarget(t) ==
  /\ pixelWidth' = t.w
  /\ pixelHeight' = t.h
  /\ imageSrc' = t.src

PageShown == appMounted /\ route \in DemoPaths

\* the page state a render made now would commit
Committed ==
  [hasPixels |-> hasPixels, pixels |-> pixels, pixelsId |-> pixelsId, pixelWidth |-> pixelWidth,
   pixelHeight |-> pixelHeight, imageSrc |-> imageSrc, fileChangeCount |-> fileChangeCount]

\* the dependency list of the sampling effect in the render r
SamplingDeps(r) == <<r.pixelWidth, r.pixelHeight, r.imageSrc>>

\* runs of the sampling effect still to come from what is under way
PendingRuns ==
  Len(reads) + (IF "sampling" \in effects THEN 1 ELSE 0)
             + (IF SamplingDeps(Committed) # SamplingDeps(rendered) THEN 1 ELSE 0)

\* the control panel is used while the budget of changes lasts; reads, image
\* loads, renders, effects and frames go on after it
PanelInUse == PageShown /\ fileChangeCount + PendingRuns < MaxChanges

\* onChange of the two numeric fields: Number(e.target.value); the field
\* shows the value at once
EditWidth(v) ==
  /\ PanelInUse
  /\ v # tempPixelWidth
  /\ tempPixelWidth' = v
  /\ lastOp' = "other"
  /\ UNCHANGED <<tempPixelHeight, hasPixels, pixels, pixelsId, pixelWidth, pixelHeight, fileChangeCount,
                 imageSrc, imgLoads, reads, rendered, effects, gridVars, moveVars, appVars,
                 animVars, samplerVars, lastCanvas>>

EditHeight(v) ==
  /\ PanelInUse
  /\ v # tempPixelHeight
  /\ tempPixelHeight' = v
  /\ lastOp' = "other"
  /\ UNCHANGED <<tempPixelWidth, hasPixels, pixels, pixelsId, pixelWidth, pixelHeight, fileChangeCount,
                 imageSrc, imgLoads, reads, rendered, effects, gridVars, moveVars, appVars,
                 animVars, samplerVars, lastCanvas>>

\* the sizes the model lets the page apply (the fields start at 64)
SizesInBounds == tempPixelWidth \in InputValues /\ tempPixelHeight \in InputValues

RemoveAt(q, i) == [j \in 1..(Len(q) - 1) |-> IF j < i THEN q[j] ELSE q[j + 1]]

\* handleFileChange with the picker's file: nothing without a file, else a
\* FileReader is started whose onload holds the temp sizes of this render
HandleFileChange(file) ==
  /\ PanelInUse
  /\ file # NoFile => SizesInBounds
  /\ reads' = IF file = NoFile THEN reads
              ELSE Append(reads, [file |-> file, w |-> tempPixelWidth, h |-> tempPixelHeight])
  /\ lastOp' = IF file = NoFile THEN "fileNone" ELSE "other"
  /\ UNCHANGED <<hasPixels, pixels, pixelsId, tempPixelWidth, tempPixelHeight, pixelWidth, pixelHeight,
                 fileChangeCount, imageSrc, imgLoads, rendered, effects, gridVars, moveVars,
                 appVars, animVars, samplerVars, lastCanvas>>

\* reader.onload of the i-th pending read, with the reader's result
ReaderOnload(i, resultIsString) ==
  /\ PageShown
  /\ i \in 1..Len(reads)
  /\ ApplyTarget(FileChangeTarget(reads[i], resultIsString))
  /\ reads' = RemoveAt(reads, i)
  /\ lastOp' = IF resultIsString THEN "other" ELSE "fileUnreadable"
  /\ UNCHANGED <<hasPixels, pixels, pixelsId, tempPixelWidth, tempPixelHeight, fileChangeCount, imgLoads,
                 rendered, effects, gridVars, moveVars, appVars, animVars, samplerVars,
                 lastCanvas>>

\* the i-th pending read fails: the reader has no onerror, onload is never called
ReaderOnerror(i) ==
  /\ PageShown
  /\ i \in 1..Len(reads)
  /\ reads' = RemoveAt(reads, i)
  /\ lastOp' = "other"
  /\ UNCHANGED <<hasPixels, pixels, pixelsId, tempPixelWidth, tempPixelHeight, pixelWidth, pixelHeight,
                 fileChangeCount, imageSrc, imgLoads, rendered, effects, gridVars, moveVars,
                 appVars, animVars, samplerVars, lastCanvas>>

\* reloadImage, as the committed render made it
ReloadImage ==
  /\ PanelInUse
  /\ rendered.imageSrc # NoImage => SizesInBounds
  /\ ApplyTarget(ReloadTarget)
  /\ lastOp' = IF rendered.imageSrc = NoImage THEN "reloadNoImage" ELSE "other"
  /\ UNCHANGED <<hasPixels, pixels, pixelsId, tempPixelWidth, tempPixelHeight, fileChangeCount, imgLoads,
                 reads, rendered, effects, gridVars, moveVars, appVars, animVars, samplerVars,
                 lastCanvas>>

\* the sampling effect of the committed render, run after the commit: it
\* counts the change and creates an image whose onload will sample at the
\* sizes of that render
SamplingEffect ==
  /\ PageShown
  /\ "sampling" \in effects
  /\ effects' = effects \ {"sampling"}
  /\ IF rendered.imageSrc = NoImage
       THEN UNCHANGED <<fileChangeCount, imgLoads>>
       ELSE /\ fileChangeCount' = fileChangeCount + 1
            /\ imgLoads' = Append(imgLoads, [src |-> rendered.imageSrc, w |-> rendered.pixelWidth,
                                             h |-> rendered.pixelHeight])
  /\ lastOp' = "other"
  /\ UNCHANGED <<hasPixels, pixels, pixelsId, tempPixelWidth, tempPixelHeight, pixelWidth, pixelHeight,
                 imageSrc, reads, rendered, gridVars, moveVars, appVars, animVars, samplerVars,
                 lastCanvas>>

\* PixelGrid's reset effect, run after the commit of the render that first
\* saw the new fileChangeCount, with the cell set of that render: it sets
\* new scales and clears the refs
ResetEffect ==
  /\ PageShown
  /\ "reset" \in effects
  /\ effects' = effects \ {"reset"}
  /\ IF rendered.fileChangeCount # prevFileChangeCount
       THEN /\ scales' = HiddenScales(Len(rendered.pixels))
            /\ scaleProgress' = 0
            /\ batchIndex' = 0
            /\ prevFileChangeCount' = rendered.fileChangeCount
            /\ batchSet' = {}
            /\ sampledSinceReset' = FALSE
       ELSE UNCHANGED <<scales, scaleProgress, batchIndex, prevFileChangeCount, batchSet,
                        sampledSinceReset>>
  /\ lastOp' = "other"
  /\ UNCHANGED <<scalesSeen, pageState, tempPixelWidth, tempPixelHeight, imgLoads, reads,
                 rendered, moveVars, appVars, animVars, samplerVars, lastCanvas>>

\* values of (Math.random() - 0.5) * 100, per axis
ScatterChoices == {[x |-> 0 - 40, y |-> 25, z |-> 10], [x |-> 49, y |-> 0 - 50, z |-> 0]}

\* PixelGrid's scatter effect, run after the commit of a render with another
\* pixels array (and after the mount): new random scatter positions, one for
\* each cell of that render
ScatterEffect ==
  /\ PageShown
  /\ "scatter" \in effects
  /\ effects' = effects \ {"scatter"}
  /\ scatterPositions' \in [1..Len(rendered.pixels) -> ScatterChoices]
  /\ lastOp' = "other"
  /\ UNCHANGED <<pageState, tempPixelWidth, tempPixelHeight, imgLoads, reads, rendered,
                 gridVars, animationSeen, lastAnimation, animationProgress, posSet,
                 appVars, animVars, samplerVars, lastCanvas>>

\* a re-render with a new cell set: meshes are keyed by index; a mesh whose
\* position prop changed, or that is new, is placed by the prop, any other
\* keeps the position the frames gave it
RenderedAt(set, old, new) ==
  [k \in 1..Len(new) |->
     IF k <= Len(old) /\ k <= Len(set)
        /\ <<old[k].x, old[k].y, old[k].z>> = <<new[k].x, new[k].y, new[k].z>>
       THEN set[k] ELSE AtProp]

\* img.onload of the i-th pending image: createPixelData at the sizes the
\* effect's render saw, then setPixels; a throw leaves the page as it is
ImgOnload(i, ctxOk) ==
  /\ PageShown
  /\ i \in 1..Len(imgLoads)
  /\ LET load == imgLoads[i]
         out  == CreatePixelData(ctxOk, DrawnAt(load.src, load.w, load.h), load.w, load.h)
     IN  /\ lastCanvas' = out.canvas
         /\ IF out.thrown
              THEN UNCHANGED <<hasPixels, pixels, pixelsId, sampledSinceReset>>
              ELSE /\ hasPixels' = TRUE
                   /\ pixels' = out.result
                   /\ pixelsId' = pixelsId + 1
                   /\ sampledSinceReset' = TRUE
  /\ imgLoads' = RemoveAt(imgLoads, i)
  /\ lastOp' = IF ctxOk THEN "other" ELSE "onloadNoContext"
  /\ UNCHANGED <<tempPixelWidth, tempPixelHeight, pixelWidth, pixelHeight, fileChangeCount,
                 imageSrc, reads, rendered, effects, scales, scalesSeen, scaleProgress,
                 batchIndex, prevFileChangeCount, batchSet, moveVars, appVars, animVars,
                 samplerVars>>

(***************************************************************************)
(* PixelGrid: the reveal animation                                         *)
(***************************************************************************)
\* batchIndexRef.current > pixels.length / pixelWidth, in floating point:
\* the quotient is infinite or NaN for width 0
RevealDone(batch, len, width) ==
  IF width > 0 THEN batch * width > len
  ELSE IF width = 0 THEN FALSE
  ELSE batch * width < len

\* scaleProgressRef.current > batchIndex * (ANIMATION_TIME / (pixels.length / pixelWidth)),
\* in floating point: the threshold is NaN for an empty cell set and batch 0
ThresholdCrossed(progress, batch, len, width) ==
  IF len > 0 THEN progress * len > batch * ANIMATION_TIME * width
  ELSE width < 0 /\ batch > 0

Max(a, b) == IF a >= b THEN a ELSE b
Min(a, b) == IF a <= b THEN a ELSE b

\* newScales = [...captured]; newScales[i] = 1 for startIndex <= i < endIndex
\* (indices from 0); writing past the end leaves holes
BatchScales(captured, startIndex, endIndex) ==
  IF endIndex <= startIndex THEN captured
  ELSE [i \in 1..Max(Len(captured), endIndex) |->
          IF startIndex < i /\ i <= endIndex THEN 1
          ELSE IF i <= Len(captured) THEN captured[i] ELSE Undefined]

\* the indices (from 1) a batch step sets
BatchCells(startIndex, endIndex) == {i \in 1..Max(endIndex, 0) : startIndex < i}

\* one render frame, delta seconds after the previous one: the reveal
\* callback, with the cell set, the width and the scales of the committed render
RevealFrame(delta) ==
  IF RevealDone(batchIndex, Len(rendered.pixels), rendered.pixelWidth)
    THEN UNCHANGED gridVars
    ELSE /\ scaleProgress + delta <= MaxProgress
         /\ scaleProgress' = scaleProgress + delta
         /\ IF ThresholdCrossed(scaleProgress + delta, batchIndex, Len(rendered.pixels),
                                rendered.pixelWidth)
              THEN LET startIndex == batchIndex * rendered.pixelWidth
                       endIndex   == Min(startIndex + rendered.pixelWidth, Len(rendered.pixels))
                   IN  /\ scales' = BatchScales(scalesSeen, startIndex, endIndex)
                       /\ batchIndex' = batchIndex + 1
                       /\ batchSet' = batchSet \cup BatchCells(startIndex, endIndex)
              ELSE UNCHANGED <<scales, batchIndex, batchSet>>
         /\ UNCHANGED <<scalesSeen, prevFileChangeCount, sampledSinceReset>>

(***************************************************************************)
(* PixelGrid: the displacement animation                                   *)
(***************************************************************************)
AdvanceProgressUnclamped(progress, delta) ==
  IF progress < ANIMATION_TIME THEN progress + delta ELSE progress

\* animationProgressRef.current += delta / ANIMATION_TIME, clamped at 1, while
\* it is below 1; progress counts units of 1 / ANIMATION_TIME
AdvanceProgress(progress, delta) ==
  IF progress < ANIMATION_TIME THEN Min(progress + delta, ANIMATION_TIME) ELSE progress

\* the mode reads scatterPositionsRef.current[i]
ReadsScatter(anim) == anim \in {"explosion_start", "explosion_end"}

\* the meshes the forEach places before it ends: all of them, or in an
\* explosion mode those before the first cell without a scatter entry, where
\* reading .x of undefined throws
PlacedCells(anim, count, entries) ==
  IF ReadsScatter(anim) /\ entries < count THEN 1..entries ELSE 1..count

\* the displacement callback throws a TypeError in this frame
DisplaceThrows ==
  /\ animationSeen # "default"
  /\ ReadsScatter(animationSeen)
  /\ Len(scatterPositions) < Len(rendered.pixels)

\* one render frame: the displacement callback, with the animation prop and
\* the cell set of the committed render.  A changed mode clears the progress;
\* in a mode other than "default" the progress advances and the meshes are
\* placed anew, one after the other.
DisplaceFrame(delta) ==
  LET base == IF animationSeen # lastAnimation THEN 0 ELSE animationProgress
  IN  /\ lastAnimation' = animationSeen
      /\ IF animationSeen = "default"
            THEN /\ animationProgress' = base
                 /\ UNCHANGED posSet
            ELSE /\ animationProgress' = AdvanceProgress(base, delta)
                 /\ posSet' = [k \in 1..Len(rendered.pixels) |->
                                 IF k \in PlacedCells(animationSeen, Len(rendered.pixels),
                                                      Len(scatterPositions))
                                   THEN [anim |-> animationSeen,
                                         progress |-> AdvanceProgress(base, delta),
                                         scatter |-> IF ReadsScatter(animationSeen)
                                                       THEN scatterPositions[k] ELSE NoScatter]
                                   ELSE posSet[k]]
      /\ UNCHANGED <<animationSeen, scatterPositions>>

\* Math.sin(progress * PI / 2) in thousandths, for progress 0, 1/3, 2/3, 1
SmoothTable == <<0, 500, 866, 1000>>
Smooth(progress) == SmoothTable[progress + 1]

\* (pixel.x + pixel.z + t * 10) * 0.3 as a fraction, t = n / ANIMATION_TIME
\* and the pixel's coordinates in half cells
SinArg(pixel, n) == <<3 * ANIMATION_TIME * (pixel.x + pixel.z) + 60 * n, 20 * ANIMATION_TIME>>

NoWave == [arg |-> <<0, 1>>, amp |-> 0]

\* the position the callback computes for one mesh.  x, y, z in thousandths
\* of half cells; the wave's part of z is amp / 1000 times the sine of arg.
\* scatter is the mesh's entry of scatterPositionsRef, in whole cells.
TargetPosition(anim, progress, pixel, scatter) ==
  LET sp  == Smooth(progress)
      mix(to, from, w) == 2 * to * w + from * (1000 - w)
  IN  IF anim = "explosion_start"
        THEN [x |-> mix(scatter.x, pixel.x, sp), y |-> mix(scatter.y, pixel.y, sp),
              z |-> mix(scatter.z, pixel.z, sp), wave |-> NoWave]
      ELSE IF anim = "explosion_end"
        THEN [x |-> mix(scatter.x, pixel.x, 1000 - sp), y |-> mix(scatter.y, pixel.y, 1000 - sp),
              z |-> mix(scatter.z, pixel.z, 1000 - sp), wave |-> NoWave]
      ELSE IF anim = "wave_start"
        THEN [x |-> 1000 * pixel.x, y |-> 1000 * pixel.y, z |-> 0,
              wave |-> [arg |-> SinArg(pixel, progress), amp |-> 5 * sp]]
      ELSE IF anim = "wave_end"
        THEN [x |-> 1000 * pixel.x, y |-> 1000 * pixel.y, z |-> 0,
              wave |-> [arg |-> SinArg(pixel, ANIMATION_TIME - progress),
                        amp |-> 5 * (1000 - sp)]]
      ELSE [x |-> 1000 * pixel.x, y |-> 1000 * pixel.y, z |-> 1000 * pixel.z, wave |-> NoWave]

\* one render frame: both useFrame callbacks of PixelGrid, the reveal first
Frame(delta) ==
  /\ PageShown
  /\ rendered.hasPixels
  /\ RevealFrame(delta)
  /\ DisplaceFrame(delta)
  /\ lastOp' = IF DisplaceThrows THEN "frameThrows" ELSE "other"
  /\ UNCHANGED <<pageVars, appVars, animVars, samplerVars, lastCanvas>>

\* a state update is waiting for its render
RenderWaiting ==
  \/ rendered # Committed
  \/ rendered.hasPixels /\ (scalesSeen # scales \/ animationSeen # animation)

\* the render and commit the state updates asked for, after the effects of
\* the commit before have run.  The closures and the props of PixelGrid see
\* the latest state; the first render with a cell set mounts PixelGrid, with
\* its initial state and refs.  The sampling effect is left to run when one of
\* its dependencies changed, PixelGrid's reset effect when the count changed,
\* its scatter effect when the grid is mounted or gets another pixels array.
Render ==
  /\ PageShown
  /\ effects = {}
  /\ RenderWaiting
  /\ rendered' = Committed
  /\ effects' = (IF SamplingDeps(Committed) # SamplingDeps(rendered) THEN {"sampling"} ELSE {})
                \cup (IF rendered.hasPixels /\ fileChangeCount # rendered.fileChangeCount
                        THEN {"reset"} ELSE {})
                \cup (IF hasPixels /\ (~rendered.hasPixels \/ pixelsId # rendered.pixelsId)
                        THEN {"scatter"} ELSE {})
  /\ IF hasPixels /\ ~rendered.hasPixels
       THEN /\ scales' = HiddenScales(Len(pixels))
            /\ scalesSeen' = HiddenScales(Len(pixels))
            /\ scaleProgress' = 0
            /\ batchIndex' = 0
            /\ prevFileChangeCount' = fileChangeCount
            /\ batchSet' = {}
            /\ animationSeen' = animation
            /\ lastAnimation' = animation
            /\ animationProgress' = 0
            /\ posSet' = [k \in 1..Len(pixels) |-> AtProp]
            /\ scatterPositions' \in [1..Len(pixels) -> ScatterChoices]
       ELSE IF rendered.hasPixels
         THEN /\ scalesSeen' = scales
              /\ animationSeen' = animation
              /\ posSet' = RenderedAt(posSet, rendered.pixels, pixels)
              /\ UNCHANGED <<scales, scaleProgress, batchIndex, prevFileChangeCount, batchSet,
                             lastAnimation, animationProgress, scatterPositions>>
         ELSE UNCHANGED <<scales, scalesSeen, scaleProgress, batchIndex, prevFileChangeCount,
                          batchSet, moveVars>>
  /\ lastOp' = "other"
  /\ UNCHANGED <<pageState, tempPixelWidth, tempPixelHeight, imgLoads, reads, sampledSinceReset,
                 appVars, animVars, samplerVars, lastCanvas>>

\* the document of the demo page, loaded, the popup dismissed
Init ==
  /\ route = "/pixcel-art/demo" /\ appMounted = TRUE
  /\ showPopup = FALSE /\ popupDismissed = TRUE
  /\ PageInit /\ AnimInit /\ GridInit /\ MoveInit /\ SamplerIdle
  /\ lastCanvas = << >>
  /\ lastOp = "other"

Next ==
  \/ \E v \in InputValues : EditWidth(v)
  \/ \E v \in InputValues : EditHeight(v)
  \/ \E file \in Files \cup {NoFile} : HandleFileChange(file)
  \/ \E i \in 1..MaxChanges, resultIsString \in BOOLEAN : ReaderOnload(i, resultIsString)
  \/ \E i \in 1..MaxChanges : ReaderOnerror(i)
  \/ ReloadImage
  \/ SamplingEffect
  \/ ResetEffect
  \/ ScatterEffect
  \/ \E i \in 1..MaxChanges, ctxOk \in BOOLEAN : ImgOnload(i, ctxOk)
  \/ \E delta \in FrameDeltas : Frame(delta)
  \/ Render

Spec == Init /\ [][Next]_vars

(***************************************************************************)
(* The App shell, the documents of the site, and the displacement mode of  *)
(* the PixelArt page with its timers                                       *)
(***************************************************************************)
MaxTriggers == 2   \* presses of the Explosion and Wave buttons per document

Paths == {HomePath} \cup DemoPaths

\* a document load: App and the page are constructed anew, every timer and
\* pending image of the previous document is gone
LoadDocument(path) ==
  /\ route' = path
  /\ appMounted' = FALSE
  /\ showPopup' = FALSE
  /\ hasPixels' = FALSE
  /\ pixels' = << >>
  /\ pixelsId' = 0
  /\ tempPixelWidth' = DEFAULT_PIXEL_SIZE
  /\ tempPixelHeight' = DEFAULT_PIXEL_SIZE
  /\ pixelWidth' = DEFAULT_PIXEL_SIZE
  /\ pixelHeight' = DEFAULT_PIXEL_SIZE
  /\ fileChangeCount' = 0
  /\ imageSrc' = NoImage
  /\ imgLoads' = << >>
  /\ reads' = << >>
  /\ rendered' = FirstRender
  /\ effects' = {}
  /\ animation' = "default"
  /\ timers' = << >>
  /\ nTriggers' = 0
  /\ idleReturns' = 0
  /\ retriggered' = FALSE
  /\ clock' = 0
  /\ modeLog' = << >>
  /\ UNCHANGED <<popupDismissed, gridVars, moveVars, samplerVars, lastCanvas>>

\* the address bar, the reload button, the history buttons
OpenUrl(path) ==
  /\ LoadDocument(path)
  /\ lastOp' = "other"

\* a project card's demo link on the home page: a plain anchor, so the
\* browser loads the document of the demo path
ClickDemoLink(path) ==
  /\ appMounted
  /\ route = HomePath
  /\ path \in DemoPaths
  /\ LoadDocument(path)
  /\ lastOp' = "other"

\* App's mount effect: setShowPopup(true)
AppMount ==
  /\ ~appMounted
  /\ appMounted' = TRUE
  /\ showPopup' = TRUE
  /\ lastOp' = "other"
  /\ UNCHANGED <<route, popupDismissed, pageVars, animVars, gridVars, moveVars, samplerVars,
                 lastCanvas>>

\* the popup's dismiss button: onClose
ClosePopup ==
  /\ appMounted
  /\ showPopup
  /\ showPopup' = FALSE
  /\ popupDismissed' = TRUE
  /\ lastOp' = "other"
  /\ UNCHANGED <<route, appMounted, pageVars, animVars, gridVars, moveVars, samplerVars,
                 lastCanvas>>

Timer(delay, mode) == [left |-> delay, delay |-> delay, mode |-> mode]

\* one setAnimation call: the value, the time, and who called
LogEntry(mode, at, by) == [mode |-> mode, at |-> at, by |-> by]

NewTimersSwapped(effect) ==
  <<Timer(ANIMATION_TIME * 2, effect \o "_end"), Timer(ANIMATION_TIME * 1, "default")>>

NewTimersWithoutIdle(effect) ==
  <<Timer(ANIMATION_TIME * 1, effect \o "_end")>>

NewTimersOtherEffect(effect) ==
  <<Timer(ANIMATION_TIME * 1, (IF effect = "wave" THEN "explosion" ELSE "wave") \o "_end"),
    Timer(ANIMATION_TIME * 2, "default")>>

\* the two setTimeout calls of a trigger, delays in seconds
NewTimers(effect) ==
  <<Timer(ANIMATION_TIME * 1, effect \o "_end"), Timer(ANIMATION_TIME * 2, "default")>>

ControlAnimationCancelling(effect) ==
  /\ PageShown
  /\ nTriggers < MaxTriggers
  /\ animation' = effect \o "_start"
  /\ timers' = NewTimers(effect)
  /\ nTriggers' = nTriggers + 1
  /\ retriggered' = (retriggered \/ timers # << >>)
  /\ modeLog' = Append(modeLog, LogEntry(effect \o "_start", clock, "trigger"))
  /\ lastOp' = "other"
  /\ UNCHANGED <<idleReturns, clock, appVars, pageVars, gridVars, moveVars, samplerVars,
                 lastCanvas>>

\* controlExplosionAnimation ("explosion") and controlWaveAnimation ("wave")
ControlAnimation(effect) ==
  /\ PageShown
  /\ nTriggers < MaxTriggers
  /\ animation' = effect \o "_start"
  /\ timers' = timers \o NewTimers(effect)
  /\ nTriggers' = nTriggers + 1
  /\ retriggered' = (retriggered \/ timers # << >>)
  /\ modeLog' = Append(modeLog, LogEntry(effect \o "_start", clock, "trigger"))
  /\ lastOp' = "other"
  /\ UNCHANGED <<idleReturns, clock, appVars, pageVars, gridVars, moveVars, samplerVars,
                 lastCanvas>>

\* one second passes; a due timer fires, and a render or an effect that is
\* waiting runs, before time goes on
Tick ==
  /\ timers # << >>
  /\ \A i \in 1..Len(timers) : timers[i].left > 0
  /\ ~RenderWaiting
  /\ effects = {}
  /\ timers' = [i \in 1..Len(timers) |-> [timers[i] EXCEPT !.left = @ - 1]]
  /\ clock' = clock + 1
  /\ lastOp' = "other"
  /\ UNCHANGED <<animation, nTriggers, idleReturns, retriggered, modeLog,
                 appVars, pageVars, gridVars, moveVars, samplerVars, lastCanvas>>

\* a due timer's callback: setAnimation(mode).  Of two timers due together
\* the one set earlier with no longer a delay runs first.
FireTimer(i) ==
  /\ i \in 1..Len(timers)
  /\ timers[i].left = 0
  /\ \A j \in 1..(i - 1) : ~(timers[j].left = 0 /\ timers[j].delay <= timers[i].delay)
  /\ animation' = timers[i].mode
  /\ idleReturns' = IF timers[i].mode = "default" /\ animation # "default"
                      THEN idleReturns + 1 ELSE idleReturns
  /\ timers' = RemoveAt(timers, i)
  /\ modeLog' = Append(modeLog, LogEntry(timers[i].mode, clock, "timer"))
  /\ lastOp' = "other"
  /\ UNCHANGED <<nTriggers, retriggered, clock, appVars, pageVars, gridVars, moveVars,
                 samplerVars, lastCanvas>>

\* the home page's document, just constructed
AppInit ==
  /\ route = HomePath /\ appMounted = FALSE
  /\ showPopup = FALSE /\ popupDismissed = FALSE
  /\ PageInit /\ AnimInit /\ GridInit /\ MoveInit /\ SamplerIdle
  /\ lastCanvas = << >>
  /\ lastOp = "other"

AppNext ==
  \/ AppMount
  \/ ClosePopup
  \/ \E path \in DemoPaths : ClickDemoLink(path)
  \/ \E path \in Paths : OpenUrl(path)
  \/ \E effect \in {"explosion", "wave"} : ControlAnimation(effect)
  \/ Tick
  \/ \E i \in 1..(2 * MaxTriggers) : FireTimer(i)

SpecApp == AppInit /\ [][AppNext]_vars

\* the event loop lets time pass and runs every due timer callback
SpecAppLive ==
  /\ SpecApp
  /\ WF_vars(Tick)
  /\ WF_vars(\E i \in 1..(2 * MaxTriggers) : FireTimer(i))

(***************************************************************************)
(* The demo page with a picture on show: the displacement mode, its        *)
(* timers, and the frames and re-renders of PixelGrid                      *)
(***************************************************************************)
ShownWidth  == 1
ShownHeight == 1

\* the picture's cells at the grid size on show
ShownPixels ==
  CreatePixelData(TRUE, DrawnAt("opaque", ShownWidth, ShownHeight), ShownWidth, ShownHeight).result

\* the page after an opaque picture was picked at 1 x 1, loaded and revealed,
\* and Reload was pressed with the width field at 2: the sampling effect and
\* the reset effect have run, a frame of one second has revealed the cell
\* again, and the image load for the 2 x 1 grid has not completed yet
ShownInit ==
  /\ route = "/pixcel-art/demo" /\ appMounted = TRUE
  /\ showPopup = FALSE /\ popupDismissed = TRUE
  /\ hasPixels = TRUE
  /\ pixels = ShownPixels
  /\ tempPixelWidth = ShownWidth + 1 /\ tempPixelHeight = ShownHeight
  /\ pixelWidth = ShownWidth + 1 /\ pixelHeight = ShownHeight
  /\ fileChangeCount = 2
  /\ imageSrc = "opaque"
  /\ imgLoads = <<[src |-> "opaque", w |-> ShownWidth + 1, h |-> ShownHeight]>>
  /\ reads = << >>
  /\ pixelsId = 1
  /\ rendered = Committed
  /\ effects = {}
  /\ AnimInit
  /\ scales = <<1>> /\ scalesSeen = <<1>>
  /\ scaleProgress = 1
  /\ batchIndex = 1
  /\ prevFileChangeCount = 2
  /\ batchSet = {1}
  /\ sampledSinceReset = FALSE
  /\ animationSeen = "default"
  /\ lastAnimation = "default"
  /\ animationProgress = 0
  /\ posSet = <<AtProp>>
  /\ scatterPositions \in [1..Len(ShownPixels) -> ScatterChoices]
  /\ SamplerIdle
  /\ lastCanvas = DrawnAt("opaque", ShownWidth, ShownHeight)
  /\ lastOp = "other"

\* the displacement mode and its timers, the pending image load, and the
\* frames, renders and effects of PixelGrid
ShownNext ==
  \/ \E effect \in {"explosion", "wave"} : ControlAnimation(effect)
  \/ Tick
  \/ \E i \in 1..(2 * MaxTriggers) : FireTimer(i)
  \/ \E i \in 1..MaxChanges, ctxOk \in BOOLEAN : ImgOnload(i, ctxOk)
  \/ \E delta \in FrameDeltas : Frame(delta)
  \/ Render
  \/ ScatterEffect

SpecShown == ShownInit /\ [][ShownNext]_vars

(***************************************************************************)
(* Claims about the sampler (checked under SpecSampler)                    *)
(***************************************************************************)
SamplerReturned == sCalls > 0 /\ ~sOut.thrown

\* the cells of the raster whose alpha reaches the threshold, numbered row by row from 0
OpaqueCells == {k \in 0..(sW * sH - 1) : sImg[k + 1].a >= AlphaThreshold}

\* cell k as the canvas holds it after the image was drawn
CanvasCell(k) == lastCanvas[k + 1]

\* what the claim expects for cell k: column k % W, row k \div W, centred
\* position in half cells, z = 0 and the canvas cell's colour over 255
ExpectedRecord(k) ==
  [x |-> 2 * (k % sW) - sW,
   y |-> sH - 2 * (k \div sW),
   z |-> 0,
   color |-> [r |-> <<CanvasCell(k).r, 255>>, g |-> <<CanvasCell(k).g, 255>>,
              b |-> <<CanvasCell(k).b, 255>>]]

\* a translucent cell, and what getImageData reads after it was drawn: its
\* red channel is stored as 1 and reads as 8.5, rounded either way
Translucent      == Rgba(10, 20, 30, 30)
TranslucentDrawn == {Rgba(8, 17, 34, 30), Rgba(9, 17, 34, 30)}

ExampleRaster == <<Red, Green, Blue, TransparentBlack>>

\* C3: createPixelData emits exactly one record for each cell whose alpha is
\* at least 30 and none for a cell below it, so at most W x H records; each
\* record carries its cell's colour, as the canvas holds it, over 255 and
\* z = 0.  The 2 x 2 raster of red, green, blue and transparent black yields
\* exactly 3 records, one each for red, green and blue.
C3_OneRecordPerOpaqueCell ==
  SamplerReturned =>
    /\ Len(sOut.result) = Cardinality(OpaqueCells)
    /\ Len(sOut.result) <= sW * sH
    /\ \A k \in OpaqueCells :
         Cardinality({i \in 1..Len(sOut.result) : sOut.result[i] = ExpectedRecord(k)}) = 1
    /\ \A i \in 1..Len(sOut.result) :
         /\ sOut.result[i].z = 0
         /\ \E k \in OpaqueCells : sOut.result[i] = ExpectedRecord(k)
    /\ (sW = 2 /\ sH = 2 /\ sImg = ExampleRaster =>
          /\ Len(sOut.result) = 3
          /\ {sOut.result[i].color : i \in 1..Len(sOut.result)} =
               {[r |-> <<255, 255>>, g |-> <<0, 255>>, b |-> <<0, 255>>],
                [r |-> <<0, 255>>, g |-> <<255, 255>>, b |-> <<0, 255>>],
                [r |-> <<0, 255>>, g |-> <<0, 255>>, b |-> <<255, 255>>]})
    /\ (sW = 1 /\ sH = 1 /\ sImg = <<Translucent>> =>
          \E c \in TranslucentDrawn : sOut.result = <<PixelInfo(0, 0, 1, 1, c)>>)

C3_Witness ==
  /\ SamplerReturned
  /\ sW = 2 /\ sH = 2 /\ sImg = ExampleRaster
  /\ Len(sOut.result) = 3

MinOf(S) == CHOOSE m \in S : \A n \in S : m <= n
MaxOf(S) == CHOOSE m \in S : \A n \in S : m >= n

AllOpaque == Len(sImg) > 0 /\ \A i \in 1..Len(sImg) : sImg[i].a = ChannelMax
EmittedXs == {sOut.result[i].x : i \in 1..Len(sOut.result)}
EmittedYs == {sOut.result[i].y : i \in 1..Len(sOut.result)}

\* C4: for a fully opaque image the emitted coordinates are centred on the
\* origin: the smallest x is the negation of the largest x, and likewise for y.
C4_ExtentSymmetric ==
  (SamplerReturned /\ AllOpaque) =>
    /\ MinOf(EmittedXs) = 0 - MaxOf(EmittedXs)
    /\ MinOf(EmittedYs) = 0 - MaxOf(EmittedYs)

\* C5 (the same output on re-invocation) has no formula here: createPixelData
\* reads nothing but its arguments and the canvas it creates itself, so in
\* this model two invocations on one input are two evaluations of
\* CreatePixelData, whose agreement no reachable state could refute.

(***************************************************************************)
(* Claims about the displacement mode and the popup (under SpecApp)         *)
(***************************************************************************)
\* triggers whose timers are still pending, in a run without overlap
TriggersInFlight == IF timers = << >> THEN 0 ELSE 1

\* C1: as long as no trigger happened while timers were pending, every
\* trigger brings the mode back to "default" exactly once: the mode is away
\* from "default" while the trigger's timers are pending, the write that
\* brings it back is the timer set for twice the animation time, the returns
\* counted so far are the triggers that completed, and once the timers are
\* gone the mode is "default" and stays so.
C1_IdleExactlyOncePerTrigger ==
  ~retriggered =>
    /\ idleReturns = nTriggers - TriggersInFlight
    /\ (timers = << >> => animation = "default")
    /\ (timers # << >> =>
          /\ animation # "default"
          /\ timers[Len(timers)].mode = "default"
          /\ timers[Len(timers)].delay = 2 * ANIMATION_TIME)

C1_Witness ==
  /\ ~retriggered
  /\ nTriggers = 1
  /\ timers = << >>
  /\ idleReturns = 1
  /\ animation = "default"

\* the setAnimation calls of the latest trigger and of its timers
LatestBase  == 3 * (nTriggers - 1)
LatestFirst == modeLog[LatestBase + 1]
LatestEffect == IF LatestFirst.mode = "explosion_start" THEN "explosion" ELSE "wave"

\* C11: a trigger with no other trigger while its timers are pending takes the
\* mode through idle, X-start, X-end, idle, X the triggered effect: X-start is
\* written at the trigger, X-end by a timer 3 s after it, "default" by a timer
\* 6 s after it, in this order and nothing else; the mode is the value written
\* last and never a label of the other effect.
C11_SingleTriggerSequence ==
  (~retriggered /\ nTriggers > 0) =>
    /\ Len(modeLog) - LatestBase \in 1..3
    /\ LatestFirst.by = "trigger"
    /\ LatestFirst.mode \in {"explosion_start", "wave_start"}
    /\ (LatestBase > 0 => modeLog[LatestBase].mode = "default")
    /\ (Len(modeLog) - LatestBase >= 2 =>
          modeLog[LatestBase + 2] =
            [mode |-> LatestEffect \o "_end", at |-> LatestFirst.at + 3, by |-> "timer"])
    /\ (Len(modeLog) - LatestBase >= 3 =>
          modeLog[LatestBase + 3] =
            [mode |-> "default", at |-> LatestFirst.at + 6, by |-> "timer"])
    /\ animation = modeLog[Len(modeLog)].mode
    /\ animation \in {"default", LatestEffect \o "_start", LatestEffect \o "_end"}

C11_Witness ==
  /\ ~retriggered
  /\ nTriggers = 1
  /\ Len(modeLog) = 3
  /\ modeLog[1].mode = "wave_start"
  /\ modeLog[2].mode = "wave_end"
  /\ animation = "default"

TimerModes == {"explosion_end", "wave_end", "default"}

\* the end label that belongs to a start label
EndLabelOf(start) == IF start = "explosion_start" THEN "explosion_end" ELSE "wave_end"

\* delayed writes of value m: scheduled by the triggers so far, applied, pending
Scheduled(m) ==
  Cardinality({j \in 1..Len(modeLog) :
                 /\ modeLog[j].by = "trigger"
                 /\ (m = "default" \/ EndLabelOf(modeLog[j].mode) = m)})
Applied(m) ==
  Cardinality({j \in 1..Len(modeLog) : modeLog[j].by = "timer" /\ modeLog[j].mode = m})
Pending(m) ==
  Cardinality({j \in 1..Len(timers) : timers[j].mode = m})

NothingCancelled ==
  /\ Cardinality({j \in 1..Len(modeLog) : modeLog[j].by = "trigger"}) = nTriggers
  /\ \A m \in TimerModes : Pending(m) + Applied(m) = Scheduled(m)
  /\ Len(timers) + Len(modeLog) = 3 * nTriggers

\* C12: timers are never cancelled.  Every trigger adds exactly two delayed
\* writes, its end label and "default", behind the pending ones and leaves
\* those in place; every delayed write scheduled so far is pending or has been
\* applied; and pending writes do not stay pending for ever, whatever triggers
\* happen in between.
C12_TimersNeverCancelled ==
  /\ []NothingCancelled
  /\ [][nTriggers' = nTriggers + 1 =>
          /\ Len(timers') = Len(timers) + 2
          /\ SubSeq(timers', 1, Len(timers)) = timers
          /\ timers'[Len(timers) + 1].mode = EndLabelOf(animation')
          /\ timers'[Len(timers) + 2].mode = "default"]_vars
  /\ (timers # << >>) ~> (timers = << >>)

\* after a wave trigger in mid-flight of an explosion, the mode is the
\* explosion's end label while the wave's own end write is still pending
C12_Witness ==
  /\ nTriggers = 2
  /\ modeLog[1].mode = "explosion_start"
  /\ modeLog[2] = [mode |-> "wave_start", at |-> 1, by |-> "trigger"]
  /\ animation = "explosion_end"
  /\ Pending("wave_end") = 1

\* C16: whatever explosion and wave triggers were made and whenever, once no
\* timer is pending the mode is "default": the write applied last was a
\* timer's "default"; and with no timer pending only a trigger changes the mode.
C16_IdleWhenTimersDone ==
  /\ [](timers = << >> =>
          /\ animation = "default"
          /\ (nTriggers > 0 =>
                modeLog[Len(modeLog)].mode = "default" /\ modeLog[Len(modeLog)].by = "timer"))
  /\ [][(timers = << >> /\ animation' # animation) => nTriggers' = nTriggers + 1]_vars

C16_Witness ==
  /\ timers = << >>
  /\ nTriggers = 2
  /\ modeLog[1].mode = "wave_start"
  /\ modeLog[2] = [mode |-> "explosion_start", at |-> 2, by |-> "trigger"]
  /\ \E j \in 3..Len(modeLog) : modeLog[j].mode = "wave_end"
  /\ animation = "default"

\* C7: once the popup has been dismissed it is not shown again in the
\* session, whatever navigation between the home page and the demo pages follows.
C7_DismissedPopupStaysHidden ==
  popupDismissed => ~showPopup

(***************************************************************************)
(* Claims about the displacement of the cells (checked under SpecShown)    *)
(***************************************************************************)
\* the place mesh i is displayed at, for a scatter position sc
PlaceOf(i) ==
  TargetPosition(posSet[i].anim, posSet[i].progress, rendered.pixels[i], posSet[i].scatter)

\* the place is the cell's sampled x and y with z = 0
AtRest(place, pixel) ==
  /\ place.x = 1000 * pixel.x
  /\ place.y = 1000 * pixel.y
  /\ place.z = 0
  /\ (place.wave.amp = 0 \/ place.wave.arg[1] = 0)

\* C13: after a trigger with no other trigger while its timers were pending,
\* from the moment the mode is back at "default" every cell is displayed at
\* its rest position, its sampled x and y and z = 0, whatever frames ran
\* between the trigger and the two timers.
C13_RestAfterIdle ==
  (nTriggers > 0 /\ ~retriggered /\ timers = << >> /\ animation = "default") =>
    \A i \in 1..Len(rendered.pixels) : AtRest(PlaceOf(i), rendered.pixels[i])

\* C15: the displacement progress stays within [0, 1] (0 to ANIMATION_TIME in
\* the model's unit).  A frame that sees the mode of the frame before, and
\* not "default", leaves the progress equal or larger; a frame that sees
\* another mode than the frame before clears it, so that after the frame it
\* is 0 in "default" and this frame's own advance otherwise; and a frame that
\* sees "default" does not advance it.
C15_ProgressBoundedMonotone ==
  /\ [](animationProgress >= 0 /\ animationProgress <= ANIMATION_TIME)
  /\ [][/\ (lastAnimation' = lastAnimation /\ animationSeen # "default") =>
             animationProgress' >= animationProgress
        /\ lastAnimation' # lastAnimation =>
             (IF lastAnimation' = "default" THEN animationProgress' = 0
              ELSE animationProgress' \in FrameDeltas)
        /\ (lastAnimation' = lastAnimation /\ animationSeen = "default") =>
             animationProgress' = animationProgress]_vars

C15_Witness ==
  /\ lastAnimation = "explosion_end"
  /\ animationProgress = ANIMATION_TIME
  /\ animation = "explosion_end"
  /\ posSet[1].anim = "explosion_end"
  /\ posSet[1].progress = ANIMATION_TIME

\* the second trigger was of the first one's effect and found the mode at
\* that effect's start label: no timer had written between the two
AbsorbedRetrigger ==
  /\ nTriggers = 2
  /\ modeLog[1].by = "trigger"
  /\ modeLog[2].by = "trigger"
  /\ modeLog[2].mode = modeLog[1].mode

\* the setAnimation calls that changed the mode, in order
ModeChanges == {j \in 2..Len(modeLog) : modeLog[j].mode # modeLog[j - 1].mode}

\* after an absorbed re-trigger the mode changes exactly twice: to the end
\* label 3 s after the first trigger, to "default" 6 s after the first trigger
RetriggerSequence ==
  AbsorbedRetrigger =>
    /\ Cardinality(ModeChanges) <= 2
    /\ \A j \in ModeChanges :
          IF \A k \in ModeChanges : j <= k
            THEN modeLog[j] = [mode |-> EndLabelOf(modeLog[1].mode),
                               at |-> modeLog[1].at + 3, by |-> "timer"]
            ELSE modeLog[j] = [mode |-> "default",
                               at |-> modeLog[1].at + 6, by |-> "timer"]

\* C19: a trigger of the same effect while the mode is that effect's start
\* label leaves the mode and the progress as they are, and the mode then
\* changes as for the first trigger alone: to the end label 3 s after the
\* first trigger, to "default" 6 s after the first trigger, and at no other
\* write - the second trigger's timers write what the mode holds already.
C19_RetriggerAbsorbed ==
  [][/\ RetriggerSequence'
     /\ (nTriggers' = nTriggers + 1 /\ animation' = animation) =>
          UNCHANGED <<animationSeen, lastAnimation, animationProgress>>]_vars

(***************************************************************************)
(* Claims about the page and the reveal animation (checked under Spec)     *)
(***************************************************************************)
\* the scale PixelBox i is rendered with is 1
Visible(i) == i <= Len(scalesSeen) /\ scalesSeen[i] = 1

\* C2: after a change of image or grid size, no cell of the newly sampled
\* cell set is displayed visible unless a reveal batch step made after the
\* reset set it to 1.
C2_HiddenUntilRevealed ==
  (rendered.hasPixels /\ sampledSinceReset /\ rendered.pixels = pixels) =>
    \A i \in 1..Len(rendered.pixels) : Visible(i) => i \in batchSet

\* C6: the applied grid width and height are positive in every reachable state.
C6_GridSizePositive ==
  pixelWidth > 0 /\ pixelHeight > 0

RevealTerminal == RevealDone(batchIndex, Len(rendered.pixels), rendered.pixelWidth)

\* some amount of further frame time lets the next batch step happen
CanAdvance ==
  \E p \in (scaleProgress + 1)..(scaleProgress + ANIMATION_TIME + 1) :
    ThresholdCrossed(p, batchIndex, Len(rendered.pixels), rendered.pixelWidth)

AllCellsVisible == \A i \in 1..Len(rendered.pixels) : i <= Len(scales) /\ scales[i] = 1

\* no read, image load, render or effect is under way
Settled == reads = << >> /\ imgLoads = << >> /\ effects = {} /\ rendered = Committed

\* C8: with the cell set sampled and on display and nothing pending, the reveal is either
\* terminal or can still take its next batch step when frames go on, so that
\* it ends; and in a terminal state every cell has been made visible.  The
\* empty cell set and a cell count that is no multiple of the width included.
C8_RevealEndsAllVisible ==
  (rendered.hasPixels /\ sampledSinceReset /\ Settled /\ rendered.pixelWidth > 0) =>
    /\ RevealTerminal \/ CanAdvance
    /\ RevealTerminal => AllCellsVisible

\* the step is a reset of the reveal, or mounts the grid
RevealRestarts ==
  prevFileChangeCount' # prevFileChangeCount \/ (rendered.hasPixels' /\ ~rendered.hasPixels)

\* cells k.W to min(k.W + W, cell count) - 1, numbered from 1
CellsOfBatch(k) ==
  {i \in 1..Len(rendered.pixels) :
     k * rendered.pixelWidth < i /\ i <= k * rendered.pixelWidth + rendered.pixelWidth}

\* cell i has scale 1 in the scales state q
ScaleIsOne(q, i) == i <= Len(q) /\ q[i] = 1

\* C14: between two resets the batch counter only advances, by exactly 1 in
\* a step, and only in a frame; a cell becomes visible only in the frame that
\* advances the counter from the index k of the cell's batch (cells k.W to
\* min(k.W + W, count) - 1), that frame makes all of batch k visible, and in
\* it the accumulated time exceeds k x (3 s / (count / W)); a step that leaves
\* the counter leaves the scales.
C14_BatchesInOrder ==
  [][(rendered.hasPixels /\ rendered.pixelWidth > 0 /\ ~RevealRestarts) =>
       /\ batchIndex' \in {batchIndex, batchIndex + 1}
       /\ (batchIndex' = batchIndex => scales' = scales)
       /\ \A i \in 1..Len(rendered.pixels) :
            (ScaleIsOne(scales', i) /\ ~ScaleIsOne(scales, i)) => i \in CellsOfBatch(batchIndex)
       /\ (batchIndex' = batchIndex + 1 =>
             /\ scaleProgress' > scaleProgress
             /\ \A i \in CellsOfBatch(batchIndex) : ScaleIsOne(scales', i)
             /\ Len(rendered.pixels) > 0
             /\ scaleProgress' * Len(rendered.pixels)
                  > batchIndex * 3 * rendered.pixelWidth)]_vars

\* C18: a cell that a batch step set to 1 since the latest reset (or since the
\* grid was mounted) has scale 1, whatever the order of frames and re-renders.
C18_RevealedStaysRevealed ==
  rendered.hasPixels => \A i \in batchSet : i <= Len(scales) /\ scales[i] = 1

\* the cells of the selected image at the applied width and height
SampleOfSelection ==
  CreatePixelData(TRUE, DrawnAt(imageSrc, pixelWidth, pixelHeight), pixelWidth, pixelHeight).result

\* no read or image load is pending and no selection waits to be sampled
SamplingSettled ==
  /\ reads = << >> /\ imgLoads = << >>
  /\ "sampling" \notin effects
  /\ SamplingDeps(rendered) = SamplingDeps(Committed)

\* C17: once the cell set is the selected image sampled at the applied width
\* and height, it still is when the last pending load has completed and no
\* selection waits to be sampled - in whatever order the loads complete.
C17_CellsMatchSelection ==
  [][(hasPixels /\ pixels = SampleOfSelection
        /\ imgLoads # << >> /\ SamplingSettled') =>
       pixels' = SampleOfSelection']_vars

IgnoredLabels == {"fileNone", "fileUnreadable", "reloadNoImage"}

\* C9: handleFileChange without a file or with a reader result that is no
\* string, and reloadImage without a loaded image, leave the image source,
\* the applied width and height, the file-change counter, the cell set and
\* the displacement mode as they were.
C9_IgnoredInputsChangeNothing ==
  [][lastOp' \in IgnoredLabels =>
       UNCHANGED <<imageSrc, pixelWidth, pixelHeight, fileChangeCount,
                   hasPixels, pixels, animation>>]_vars

C9_Witness ==
  /\ lastOp = "fileUnreadable"
  /\ imageSrc # NoImage
  /\ hasPixels
  /\ tempPixelWidth # pixelWidth

\* C10: when no 2D context can be obtained the sampling aborts: setPixels is
\* not called and the page's cell set stays as it was.
C10_NoContextKeepsCells ==
  [][lastOp' = "onloadNoContext" => UNCHANGED <<hasPixels, pixels>>]_vars

C10_Witness ==
  /\ lastOp = "onloadNoContext"
  /\ hasPixels
  /\ Len(pixels) > 0

====
